---- MODULE Spec2Model ----
(***************************************************************************)
(* Model of the versioned 'Transaction' table maintained by                *)
(* OnlineShopping_v2.py: Execute / Usable decode a fixed-width extract,    *)
(* Insert appends a row, Main_logic retires and re-inserts, and            *)
(* processOnlineshopping chooses between the Day1 load and Main_logic.     *)
(* Text is modelled as a sequence of one-character strings, so that the    *)
(* slicing of Usable, the str()/repr() splicing of the SQL statements and  *)
(* SQLite's reading of the spliced text are computed, not assumed.         *)
(***************************************************************************)
EXTENDS Integers, Sequences, FiniteSets, TLC

VARIABLES table, durable, pc, err, calls, file_name, extract, lst, idx,
          final_data, pre_table

vars == <<table, durable, pc, err, calls, file_name, extract, lst, idx,
          final_data, pre_table>>

(* ---------------------------------------------------------------------- *)
(* Bounds                                                                  *)
(* ---------------------------------------------------------------------- *)
MaxRows == 4
MaxBatch == 2
MaxCalls == 3

(* ---------------------------------------------------------------------- *)
(* Text helpers                                                            *)
(* ---------------------------------------------------------------------- *)
Rep(ch, n) == [i \in 1..n |-> ch]

Min(a, b) == IF a < b THEN a ELSE b

Digit == {"0", "1", "2", "3", "4", "5", "6", "7", "8", "9"}

\* Python slice i[a:b] of a sequence (0-based, end exclusive, clipped).
Slice(i, a, b) ==
    IF a >= Min(b, Len(i)) THEN <<>>
    ELSE [k \in 1..(Min(b, Len(i)) - a) |-> i[a + k]]

(* ---------------------------------------------------------------------- *)
(* Extract lines used as inputs                                            *)
(* ---------------------------------------------------------------------- *)
Tid1 == <<"1", "0", "0", "0", "0", "1">>
TidZ == <<"0", "0", "0", "1", "2", "3">>
TidT == <<"T", "0", "0", "0", "0", "1">>
Cid1 == <<"2", "0", "0", "0", "0", "1">>
Pid1 == <<"3", "0", "0", "0", "0", "0", "1">>
PidP == <<"0", "0", "0", "0", "1", "2", "3">>
PidS == <<"1", "2", "3">>
NameA == Rep("T", 20)
NameB == <<"T", "\\">> \o Rep(" ", 18)
Qty1 == <<"0", "0", "0", "1">>
Qty2 == <<"0", "0", "0", "2">>

Head37(tid, nm) == tid \o Cid1 \o nm \o Rep("7", 5)

Tail74(qty) ==
    Rep("T", 30) \o Rep("9", 6) \o qty \o Rep("T", 12) \o Rep("1", 20)
        \o Rep("2", 11) \o Rep("3", 11) \o Rep(" ", 11)

MkLine(tid, nm, pid, qty) == Head37(tid, nm) \o pid \o Tail74(qty)

LineA == MkLine(Tid1, NameA, Pid1, Qty1)
LineA2 == MkLine(Tid1, NameB, Pid1, Qty2)
LineZ == MkLine(TidZ, NameA, Pid1, Qty1)
LineT == MkLine(TidT, NameA, Pid1, Qty1)
LineP == MkLine(Tid1, NameA, PidP, Qty1)
LineS == Head37(Tid1, NameA) \o PidS
Blank == <<>>

Lines == {LineA, LineA2, LineZ, LineT, LineP, LineS}

(* ---------------------------------------------------------------------- *)
(* Batch loader                                                            *)
(* ---------------------------------------------------------------------- *)
\* A file is the list data.split('\n') gives: the text between newlines.
\* list.remove(x): drop the first element equal to x.
RECURSIVE RemoveFirst(_, _)
RemoveFirst(data, x) ==
    IF data = <<>> THEN <<>>
    ELSE IF Head(data) = x THEN Tail(data)
    ELSE <<Head(data)>> \o RemoveFirst(Tail(data), x)

HasBlank(data) == \E k \in 1..Len(data) : data[k] = Blank

\* Execute: data.remove('') raises ValueError when no element is ''.
Execute(file) ==
    IF HasBlank(file)
    THEN [ok |-> TRUE, data |-> RemoveFirst(file, Blank)]
    ELSE [ok |-> FALSE, data |-> <<>>]

\* Variant: Product_Id is cut one character short, [37:43].
DecodeLineShortKey(i) ==
    [Transaction_Id |-> Slice(i, 0, 6),
     Customer_Id |-> Slice(i, 6, 12),
     Customer_Name |-> Slice(i, 12, 32),
     Customer_Addr_Id |-> Slice(i, 32, 37),
     Product_Id |-> Slice(i, 37, 43),
     Product_Nm |-> Slice(i, 44, 74),
     ProductPrice |-> Slice(i, 74, 80),
     ProductQuantity |-> Slice(i, 80, 84),
     Status |-> Slice(i, 84, 96),
     Transaction_time_stamp |-> Slice(i, 96, 116),
     Ordered_Date |-> Slice(i, 116, 127),
     Shipment_Date |-> Slice(i, 127, 138),
     Delivered_Date |-> Slice(i, 138, 149)]

DecodeLine(i) ==
    [Transaction_Id |-> Slice(i, 0, 6),
     Customer_Id |-> Slice(i, 6, 12),
     Customer_Name |-> Slice(i, 12, 32),
     Customer_Addr_Id |-> Slice(i, 32, 37),
     Product_Id |-> Slice(i, 37, 44),
     Product_Nm |-> Slice(i, 44, 74),
     ProductPrice |-> Slice(i, 74, 80),
     ProductQuantity |-> Slice(i, 80, 84),
     Status |-> Slice(i, 84, 96),
     Transaction_time_stamp |-> Slice(i, 96, 116),
     Ordered_Date |-> Slice(i, 116, 127),
     Shipment_Date |-> Slice(i, 127, 138),
     Delivered_Date |-> Slice(i, 138, 149)]

Usable(data) == [k \in 1..Len(data) |-> DecodeLine(data[k])]

(* ---------------------------------------------------------------------- *)
(* SQL text: how the spliced statements are read by the database           *)
(* ---------------------------------------------------------------------- *)
\* str(tuple(temp_list)) writes every value with repr(): quoted, and with
\* each backslash doubled.  (The inputs here hold no quote characters.)
RECURSIVE PyReprBody(_)
PyReprBody(text) ==
    IF text = <<>> THEN <<>>
    ELSE (IF Head(text) = "\\" THEN <<"\\", "\\">> ELSE <<Head(text)>>)
             \o PyReprBody(Tail(text))

PyRepr(text) == <<"'">> \o PyReprBody(text) \o <<"'">>

\* A quoted SQL string literal stands for the characters between the
\* quotes; a backslash is an ordinary character in SQL.
SqlStringLiteral(tok) == Slice(tok, 1, Len(tok) - 1)

\* The text a column holds after INSERT ... VALUES str(tuple(...)).
StoredText(text) == SqlStringLiteral(PyRepr(text))

RECURSIVE LStrip(_)
LStrip(text) ==
    IF text # <<>> /\ Head(text) = " " THEN LStrip(Tail(text)) ELSE text

RECURSIVE RStrip(_)
RStrip(text) ==
    IF text # <<>> /\ text[Len(text)] = " "
    THEN RStrip(Slice(text, 0, Len(text) - 1)) ELSE text

RECURSIVE StripZeros(_)
StripZeros(text) ==
    IF Len(text) > 1 /\ Head(text) = "0" THEN StripZeros(Tail(text)) ELSE text

AllDigits(text) == text # <<>> /\ \A k \in 1..Len(text) : text[k] \in Digit

\* Right-hand side of "WHERE col = " + str(value): the value is spliced
\* unquoted.  Blank padding separates tokens; a run of digits is an integer
\* literal, compared with a text column as its decimal text; anything else
\* made of the characters used here (empty text, a name that is no column,
\* digits followed by letters, two tokens) makes the statement fail.
SqlValue(text) ==
    LET core == RStrip(LStrip(text))
    IN  IF AllDigits(core)
        THEN [ok |-> TRUE, val |-> StripZeros(core)]
        ELSE [ok |-> FALSE, val |-> <<>>]

(* ---------------------------------------------------------------------- *)
(* Ledger operations                                                       *)
(* ---------------------------------------------------------------------- *)
SameKey(a, b) ==
    /\ a.Transaction_Id = b.Transaction_Id
    /\ a.Customer_Id = b.Customer_Id
    /\ a.Product_Id = b.Product_Id

\* Variant: one more than the Sequence of the first row.
NextSequenceFromFirst(tbl) ==
    IF tbl = <<>> THEN 1 ELSE 1 + tbl[1].Sequence

\* INTEGER PRIMARY KEY left out of the INSERT: one more than the largest.
NextSequence(tbl) ==
    IF tbl = <<>> THEN 1
    ELSE 1 + (CHOOSE m \in {tbl[k].Sequence : k \in 1..Len(tbl)} :
                 \A k \in 1..Len(tbl) : tbl[k].Sequence <= m)

\* Variant: the row is written with ACTIVE_IND = 'N'.
NewRowInactive(seq, dctnry) ==
    [Sequence |-> seq,
     Transaction_Id |-> StoredText(dctnry.Transaction_Id),
     Customer_Id |-> StoredText(dctnry.Customer_Id),
     Customer_Name |-> StoredText(dctnry.Customer_Name),
     Customer_Addr_Id |-> StoredText(dctnry.Customer_Addr_Id),
     Product_Id |-> StoredText(dctnry.Product_Id),
     Product_Nm |-> StoredText(dctnry.Product_Nm),
     ProductPrice |-> StoredText(dctnry.ProductPrice),
     ProductQuantity |-> StoredText(dctnry.ProductQuantity),
     Status |-> StoredText(dctnry.Status),
     Transaction_time_stamp |-> StoredText(dctnry.Transaction_time_stamp),
     Ordered_Date |-> StoredText(dctnry.Ordered_Date),
     Shipment_Date |-> StoredText(dctnry.Shipment_Date),
     Delivered_Date |-> StoredText(dctnry.Delivered_Date),
     ACTIVE_IND |-> "N"]

NewRow(seq, dctnry) ==
    [Sequence |-> seq,
     Transaction_Id |-> StoredText(dctnry.Transaction_Id),
     Customer_Id |-> StoredText(dctnry.Customer_Id),
     Customer_Name |-> StoredText(dctnry.Customer_Name),
     Customer_Addr_Id |-> StoredText(dctnry.Customer_Addr_Id),
     Product_Id |-> StoredText(dctnry.Product_Id),
     Product_Nm |-> StoredText(dctnry.Product_Nm),
     ProductPrice |-> StoredText(dctnry.ProductPrice),
     ProductQuantity |-> StoredText(dctnry.ProductQuantity),
     Status |-> StoredText(dctnry.Status),
     Transaction_time_stamp |-> StoredText(dctnry.Transaction_time_stamp),
     Ordered_Date |-> StoredText(dctnry.Ordered_Date),
     Shipment_Date |-> StoredText(dctnry.Shipment_Date),
     Delivered_Date |-> StoredText(dctnry.Delivered_Date),
     ACTIVE_IND |-> "Y"]

\* Variant: a record whose key already has a row overwrites that row.
InsertUpsert(tbl, dctnry) ==
    IF \E k \in 1..Len(tbl) : SameKey(tbl[k], dctnry)
    THEN LET first == CHOOSE k \in 1..Len(tbl) :
                          /\ SameKey(tbl[k], dctnry)
                          /\ \A m \in 1..(k - 1) : ~SameKey(tbl[m], dctnry)
         IN  [tbl EXCEPT ![first] = NewRow(tbl[first].Sequence, dctnry)]
    ELSE Append(tbl, NewRow(NextSequence(tbl), dctnry))

\* INSERT INTO 'Transaction' (...) VALUES str(tuple(...)) with ACTIVE_IND 'Y'.
Insert(tbl, dctnry) == Append(tbl, NewRow(NextSequence(tbl), dctnry))

\* Variant: the commit is left out and the durable table stays as it was.
CommitSkipped(dur, tbl) == dur

\* conn.commit(): the durable table becomes the table the connection sees.
Commit(dur, tbl) == tbl

\* Variant: only the rows with ACTIVE_IND = 'Y' are read.
Final_dataActive(tbl) == SelectSeq(tbl, LAMBDA row : row.ACTIVE_IND = "Y")

\* SELECT * FROM 'Transaction': every row, retired ones included, in
\* Sequence order, each turned into a dictionary.
Final_data(tbl) == [k \in 1..Len(tbl) |-> tbl[k]]

\* Position in final_data of the first row whose key equals the record's
\* key (the inner for ... break of Main_logic); 0 when there is none.
MatchIndex(fd, dctnry) ==
    IF \E k \in 1..Len(fd) : SameKey(fd[k], dctnry)
    THEN CHOOSE k \in 1..Len(fd) :
             /\ SameKey(fd[k], dctnry)
             /\ \A m \in 1..(k - 1) : ~SameKey(fd[m], dctnry)
    ELSE 0

\* Does the UPDATE statement built from row j run at all?
UpdateOk(j) ==
    /\ SqlValue(j.Transaction_Id).ok
    /\ SqlValue(j.Customer_Id).ok
    /\ SqlValue(j.Product_Id).ok

\* Rows selected by WHERE Transaction_Id = .. and Customer_Id = .. and
\* Product_Id = .. built from row j.
Selected(row, j) ==
    /\ row.Transaction_Id = SqlValue(j.Transaction_Id).val
    /\ row.Customer_Id = SqlValue(j.Customer_Id).val
    /\ row.Product_Id = SqlValue(j.Product_Id).val

\* Variant: only the row with the Sequence of row j is retired.
RetireBySequence(tbl, j) ==
    [k \in 1..Len(tbl) |->
        IF tbl[k].Sequence = j.Sequence
        THEN [tbl[k] EXCEPT !.ACTIVE_IND = "N"]
        ELSE tbl[k]]

\* Variant: the selected rows are deleted instead of flagged.
RetireDelete(tbl, j) == SelectSeq(tbl, LAMBDA row : ~Selected(row, j))

\* Variant: the WHERE clause is lost and every row is retired.
RetireAll(tbl, j) ==
    [k \in 1..Len(tbl) |-> [tbl[k] EXCEPT !.ACTIVE_IND = "N"]]

\* UPDATE 'Transaction' SET ACTIVE_IND = 'N' WHERE ...
Retire(tbl, j) ==
    [k \in 1..Len(tbl) |->
        IF Selected(tbl[k], j) THEN [tbl[k] EXCEPT !.ACTIVE_IND = "N"]
        ELSE tbl[k]]

\* Main_logic as a whole: the table after the loop over lst, and whether
\* the loop ran to its end (ok) or stopped at a rejected UPDATE.
RECURSIVE Main_logic(_, _, _)
Main_logic(tbl, batch, fd) ==
    IF batch = <<>> THEN [ok |-> TRUE, table |-> tbl]
    ELSE LET dctnry == Head(batch)
             m == MatchIndex(fd, dctnry)
         IN  IF m = 0
             THEN Main_logic(Insert(tbl, dctnry), Tail(batch), fd)
             ELSE IF ~UpdateOk(fd[m])
             THEN [ok |-> FALSE, table |-> tbl]
             ELSE Main_logic(Insert(Retire(tbl, fd[m]), dctnry),
                             Tail(batch), fd)

(* ---------------------------------------------------------------------- *)
(* The program: main creates the table, then one call per day              *)
(* ---------------------------------------------------------------------- *)
Batches == UNION {[1..n -> Lines] : n \in 0..MaxBatch}

\* Extracts: records followed by the trailing blank line; one extract with
\* no blank line at all; one made of two blank lines.
Files == {recs \o <<Blank>> : recs \in Batches}
             \cup {<<LineA>>, <<Blank, Blank>>}

\* main calls processOnlineshopping with 'Day1.txt', 'Day2.txt', 'Day3.txt'.
DayName(n) ==
    IF n = 1 THEN "Day1.txt" ELSE IF n = 2 THEN "Day2.txt" ELSE "Day3.txt"

Init ==
    /\ table = <<>>
    /\ durable = <<>>
    /\ pc = "idle"
    /\ err = "none"
    /\ calls = 0
    /\ file_name = "none"
    /\ extract = <<Blank>>
    /\ lst = <<>>
    /\ idx = 1
    /\ final_data = <<>>
    /\ pre_table = <<>>

\* processOnlineshopping, up to the first loop: Execute, Usable, the test
\* on the file name and, on the else branch, Final_data.
CallAs(name, file) ==
    /\ pc = "idle"
    /\ calls < MaxCalls
    /\ Len(table) + Len(file) - 1 <= MaxRows
    /\ Execute(file).ok
    /\ calls' = calls + 1
    /\ file_name' = name
    /\ extract' = file
    /\ lst' = Usable(Execute(file).data)
    /\ idx' = 1
    /\ pre_table' = table
    /\ IF name = "Day1.txt"
       THEN pc' = "baseline" /\ final_data' = final_data
       ELSE pc' = "main" /\ final_data' = Final_data(table)
    /\ UNCHANGED <<table, durable, err>>

\* Variant: the lines read before the error are decoded and inserted.
CallLoadErrorAsPartial(name, file) ==
    /\ pc = "idle"
    /\ calls < MaxCalls
    /\ ~Execute(file).ok
    /\ calls' = calls + 1
    /\ file_name' = name
    /\ extract' = file
    /\ pre_table' = table
    /\ pc' = "failed"
    /\ err' = "ValueError"
    /\ table' = Insert(table, DecodeLine(file[1]))
    /\ durable' = Commit(durable, table')
    /\ UNCHANGED <<lst, idx, final_data>>

\* processOnlineshopping when Execute raises ValueError.
CallLoadErrorAs(name, file) ==
    /\ pc = "idle"
    /\ calls < MaxCalls
    /\ ~Execute(file).ok
    /\ calls' = calls + 1
    /\ file_name' = name
    /\ extract' = file
    /\ pre_table' = table
    /\ pc' = "failed"
    /\ err' = "ValueError"
    /\ UNCHANGED <<table, durable, lst, idx, final_data>>

\* The calls main makes: the n-th call reads the n-th day's extract.
Call(file) == CallAs(DayName(calls + 1), file)

CallLoadError(file) == CallLoadErrorAs(DayName(calls + 1), file)

\* One turn of the Day1 loop: Insert(dctnry).
BaselineInsert ==
    /\ pc = "baseline"
    /\ idx <= Len(lst)
    /\ table' = Insert(table, lst[idx])
    /\ idx' = idx + 1
    /\ UNCHANGED <<durable, pc, err, calls, file_name, extract, lst, final_data,
                   pre_table>>

\* End of the Day1 loop: conn.commit(), Print, return.
BaselineCommit ==
    /\ pc = "baseline"
    /\ idx > Len(lst)
    /\ durable' = Commit(durable, table)
    /\ pc' = "idle"
    /\ UNCHANGED <<table, err, calls, file_name, extract, lst, idx, final_data,
                   pre_table>>

\* One turn of the Main_logic loop for a record with a matching row j:
\* UPDATE, conn.commit(), Insert(dctnry), break.
MainMatch ==
    /\ pc = "main"
    /\ idx <= Len(lst)
    /\ MatchIndex(final_data, lst[idx]) # 0
    /\ LET j == final_data[MatchIndex(final_data, lst[idx])]
       IN  /\ UpdateOk(j)
           /\ durable' = Commit(durable, Retire(table, j))
           /\ table' = Insert(Retire(table, j), lst[idx])
    /\ idx' = idx + 1
    /\ UNCHANGED <<pc, err, calls, file_name, extract, lst, final_data,
                   pre_table>>

\* The same turn when the UPDATE statement is rejected: c.execute raises
\* sqlite3.OperationalError and the call ends there.
MainUpdateError ==
    /\ pc = "main"
    /\ idx <= Len(lst)
    /\ MatchIndex(final_data, lst[idx]) # 0
    /\ ~UpdateOk(final_data[MatchIndex(final_data, lst[idx])])
    /\ pc' = "failed"
    /\ err' = "OperationalError"
    /\ UNCHANGED <<table, durable, calls, file_name, extract, lst, idx,
                   final_data, pre_table>>

\* Variant: an unmatched record first retires the rows of its key that are
\* in the table by now.
MainNoMatchRetiring ==
    /\ pc = "main"
    /\ idx <= Len(lst)
    /\ MatchIndex(final_data, lst[idx]) = 0
    /\ table' = Insert(Retire(table, lst[idx]), lst[idx])
    /\ idx' = idx + 1
    /\ UNCHANGED <<durable, pc, err, calls, file_name, extract, lst, final_data,
                   pre_table>>

\* One turn of the Main_logic loop for a record with no matching row:
\* flag stays 0, Insert(dctnry).
MainNoMatch ==
    /\ pc = "main"
    /\ idx <= Len(lst)
    /\ MatchIndex(final_data, lst[idx]) = 0
    /\ table' = Insert(table, lst[idx])
    /\ idx' = idx + 1
    /\ UNCHANGED <<durable, pc, err, calls, file_name, extract, lst, final_data,
                   pre_table>>

\* End of the Main_logic loop: conn.commit(), Print, return.
MainCommit ==
    /\ pc = "main"
    /\ idx > Len(lst)
    /\ durable' = Commit(durable, table)
    /\ pc' = "idle"
    /\ UNCHANGED <<table, err, calls, file_name, extract, lst, idx, final_data,
                   pre_table>>

Next ==
    \/ \E file \in Files : Call(file)
    \/ \E file \in Files : CallLoadError(file)
    \/ BaselineInsert
    \/ BaselineCommit
    \/ MainMatch
    \/ MainUpdateError
    \/ MainNoMatch
    \/ MainCommit

Spec == Init /\ [][Next]_vars

TypeOK ==
    /\ pc \in {"idle", "baseline", "main", "failed", "read", "loaded"}
    /\ err \in {"none", "ValueError", "OperationalError"}
    /\ calls \in 0..MaxCalls
    /\ Len(table) <= MaxRows

(* ---------------------------------------------------------------------- *)
(* Vocabulary of the properties                                            *)
(* ---------------------------------------------------------------------- *)
\* A call of processOnlineshopping has returned.
BatchDone == pc = "idle" /\ calls > 0

\* The call that returned went through Main_logic.
MainDone == BatchDone /\ file_name # "Day1.txt"

\* Positions of seq holding the business key of x.
KeyPos(seq, x) == {k \in 1..Len(seq) : SameKey(seq[k], x)}

ActivePos(tbl, x) == {k \in KeyPos(tbl, x) : tbl[k].ACTIVE_IND = "Y"}

\* Position in the table of the row inserted for record p of the batch.
RowOf(p) == Len(pre_table) + p

\* A key field that SQLite reads back as itself when spliced unquoted:
\* a decimal numeral with no padding and no leading zero.
IsNumeral(text) ==
    /\ text # <<>>
    /\ \A k \in 1..Len(text) : text[k] \in Digit
    /\ (Len(text) > 1 => text[1] # "0")

NumeralKey(x) ==
    /\ IsNumeral(x.Transaction_Id)
    /\ IsNumeral(x.Customer_Id)
    /\ IsNumeral(x.Product_Id)

(* ---------------------------------------------------------------------- *)
(* Properties                                                              *)
(* ---------------------------------------------------------------------- *)

\* C1: after any sequence of batch runs the table holds at most one row
\* with ACTIVE_IND = 'Y' for each business key.
C1_AtMostOneActivePerKey ==
    BatchDone =>
        \A k \in 1..Len(table) : Cardinality(ActivePos(table, table[k])) <= 1

\* C2: after a non-baseline batch, a key that occurs exactly once in the
\* batch and had exactly one active row before it has that row retired and
\* a new active row with a strictly greater Sequence.
C2_MatchedOnceSuperseded ==
    MainDone =>
        \A k \in 1..Len(pre_table) :
            (/\ ActivePos(pre_table, pre_table[k]) = {k}
             /\ Cardinality(KeyPos(lst, pre_table[k])) = 1)
            => /\ table[k].ACTIVE_IND = "N"
               /\ \E m \in ActivePos(table, pre_table[k]) :
                      /\ m > Len(pre_table)
                      /\ table[m].Sequence > table[k].Sequence

\* C3: after a non-baseline batch, a key that occurs in the batch and has
\* no row in the snapshot has exactly one new active row and no retired row.
C3_NewKeyOneActiveRow ==
    MainDone =>
        \A p \in 1..Len(lst) :
            KeyPos(pre_table, lst[p]) = {}
            => /\ Cardinality(ActivePos(table, lst[p])) = 1
               /\ KeyPos(table, lst[p]) = ActivePos(table, lst[p])

\* C4 as stated: two records with one key in a non-baseline batch and one
\* active row for the key before it leave the original row retired and
\* both inserted rows active (2 active rows).
C4_TwoActiveAfterDuplicate ==
    MainDone =>
        \A k \in 1..Len(pre_table) :
            (/\ ActivePos(pre_table, pre_table[k]) = {k}
             /\ Cardinality(KeyPos(lst, pre_table[k])) = 2)
            => /\ table[k].ACTIVE_IND = "N"
               /\ \A p \in KeyPos(lst, pre_table[k]) :
                      table[RowOf(p)].ACTIVE_IND = "Y"
               /\ Cardinality(ActivePos(table, pre_table[k])) = 2

\* C4 amended: in that case the original row and the row inserted for the
\* first of the two records end the batch with the same flag.  With a
\* numeral key both are retired, and the row of the second record is active
\* when that record closes the batch (1 active row); with a key that is
\* not a numeral all three rows stay active.
C4_DuplicateRetiredByKey ==
    MainDone =>
        \A k \in 1..Len(pre_table) :
            (/\ ActivePos(pre_table, pre_table[k]) = {k}
             /\ Cardinality(KeyPos(lst, pre_table[k])) = 2)
            => \A p, q \in KeyPos(lst, pre_table[k]) :
                  p < q =>
                    /\ table[k].ACTIVE_IND = table[RowOf(p)].ACTIVE_IND
                    /\ NumeralKey(pre_table[k]) =>
                          /\ table[k].ACTIVE_IND = "N"
                          /\ (q = Len(lst) =>
                                 ActivePos(table, pre_table[k]) = {RowOf(q)})
                    /\ ~NumeralKey(pre_table[k]) =>
                          /\ table[k].ACTIVE_IND = "Y"
                          /\ table[RowOf(q)].ACTIVE_IND = "Y"

\* C4 witness: a numeral key with one active row met a batch holding it
\* twice; the original and the first insert are retired, the second active.
C4_Witness ==
    /\ MainDone
    /\ \E k \in 1..Len(pre_table) :
           /\ NumeralKey(pre_table[k])
           /\ ActivePos(pre_table, pre_table[k]) = {k}
           /\ KeyPos(lst, pre_table[k]) = {1, 2}
           /\ table[k].ACTIVE_IND = "N"
           /\ table[RowOf(1)].ACTIVE_IND = "N"
           /\ table[RowOf(2)].ACTIVE_IND = "Y"

\* C5: after a baseline load of a non-empty batch without duplicate keys on
\* the empty ledger, every record has exactly one row, every row is active
\* and the number of active rows is the number of records.
C5_BaselineOneActiveRowEach ==
    (/\ BatchDone
     /\ file_name = "Day1.txt"
     /\ pre_table = <<>>
     /\ lst # <<>>
     /\ \A p \in 1..Len(lst) : KeyPos(lst, lst[p]) = {p})
    => /\ \A p \in 1..Len(lst) : Cardinality(KeyPos(table, lst[p])) = 1
       /\ \A k \in 1..Len(table) : table[k].ACTIVE_IND = "Y"
       /\ Cardinality({k \in 1..Len(table) : table[k].ACTIVE_IND = "Y"})
              = Len(lst)

\* C5 witness: a baseline load of two records with different keys returned.
C5_Witness ==
    /\ BatchDone
    /\ file_name = "Day1.txt"
    /\ Len(lst) = 2
    /\ ~SameKey(lst[1], lst[2])
    /\ Len(table) = 2

\* C6: after every completed batch the row with the highest Sequence of
\* every key that has rows is active.
C6_LatestRowActive ==
    BatchDone =>
        \A k \in 1..Len(table) :
            (\A m \in KeyPos(table, table[k]) :
                 table[m].Sequence <= table[k].Sequence)
            => table[k].ACTIVE_IND = "Y"

\* C7: Sequence values are unique and strictly increasing in insertion
\* order, over all batches and inside each batch.
C7_SequenceStrictlyIncreasing ==
    \A a, b \in 1..Len(table) :
        a < b => table[a].Sequence < table[b].Sequence

\* C7 witness: rows inserted by three different calls are in the table.
C7_Witness ==
    /\ BatchDone
    /\ calls = 3
    /\ Len(pre_table) >= 2
    /\ Len(table) > Len(pre_table)
    /\ durable = table

\* C8: no step removes a row: the row count never decreases and every row
\* keeps its place and its Sequence.
C8_NoRowRemoved ==
    [][/\ Len(table') >= Len(table)
       /\ \A k \in 1..Len(table) :
              k <= Len(table') /\ table'[k].Sequence = table[k].Sequence]_vars

\* C8 witness: a Main_logic batch that retired a row and inserted two has
\* returned with all earlier rows still in the table.
C8_Witness ==
    /\ MainDone
    /\ Len(pre_table) >= 2
    /\ Len(table) = Len(pre_table) + 2
    /\ \E k \in 1..Len(pre_table) :
           pre_table[k].ACTIVE_IND = "Y" /\ table[k].ACTIVE_IND = "N"

\* C9: an existing row never changes except that its ACTIVE_IND may go
\* from 'Y' to 'N'.
C9_RowsOnlyRetire ==
    [][\A k \in 1..Len(table) :
          /\ k <= Len(table')
          /\ \/ table'[k] = table[k]
             \/ /\ table[k].ACTIVE_IND = "Y"
                /\ table'[k] = [table[k] EXCEPT !.ACTIVE_IND = "N"]]_vars

\* C9 witness: a row retired by one batch met its key again in a later
\* batch and is still retired, next to its two successors.
C9_Witness ==
    /\ MainDone
    /\ calls = 3
    /\ Len(lst) = 1
    /\ KeyPos(table, lst[1]) = {1, 2, 3}
    /\ pre_table[1].ACTIVE_IND = "N"
    /\ table[1].ACTIVE_IND = "N"
    /\ table[2].ACTIVE_IND = "N"
    /\ table[3].ACTIVE_IND = "Y"

\* A turn of the Main_logic loop that found a matching row and completed.
MatchedTurn ==
    /\ pc = "main"
    /\ idx <= Len(lst)
    /\ MatchIndex(final_data, lst[idx]) # 0
    /\ idx' = idx + 1

MatchedRow == final_data[MatchIndex(final_data, lst[idx])]

\* C10 as stated: a matched record retires the matched row, found by its
\* Sequence, and leaves the flag of every other existing row unchanged.
C10_RetiresOnlyMatchedRow ==
    [][MatchedTurn =>
          \A k \in 1..Len(table) :
              IF table[k].Sequence = MatchedRow.Sequence
              THEN table'[k].ACTIVE_IND = "N"
              ELSE table'[k].ACTIVE_IND = table[k].ACTIVE_IND]_vars

\* C10 amended: a matched record retires the rows the WHERE clause on the
\* three key columns selects, not one row by Sequence: with a numeral key
\* every existing row of that key is retired, rows inserted earlier in the
\* same batch included, and a row that is not selected keeps its flag.
C10_RetiresSelectedByKey ==
    [][MatchedTurn =>
          /\ \A k \in 1..Len(table) :
                 table'[k].ACTIVE_IND =
                    IF Selected(table[k], MatchedRow) THEN "N"
                    ELSE table[k].ACTIVE_IND
          /\ NumeralKey(MatchedRow) =>
                 \A k \in KeyPos(table, MatchedRow) :
                     table'[k].ACTIVE_IND = "N"]_vars

\* C10 witness: the second of two records with one numeral key has been
\* processed and the row inserted for the first one is retired.
C10_Witness ==
    /\ pc = "main"
    /\ idx = 3
    /\ SameKey(lst[1], lst[2])
    /\ NumeralKey(lst[1])
    /\ KeyPos(pre_table, lst[1]) # {}
    /\ table[RowOf(1)].ACTIVE_IND = "N"
    /\ table[RowOf(2)].ACTIVE_IND = "Y"

\* C11 as stated: the snapshot of a non-baseline batch holds one row per
\* key and no retired row, and the row a record is matched against was
\* active when the batch started.
C11_SnapshotOnlyActiveRows ==
    pc = "main" =>
        /\ \A k \in 1..Len(final_data) :
               /\ final_data[k].ACTIVE_IND = "Y"
               /\ KeyPos(final_data, final_data[k]) = {k}
        /\ (idx <= Len(lst) /\ MatchIndex(final_data, lst[idx]) # 0)
               => MatchedRow.ACTIVE_IND = "Y"

\* C11 amended: the snapshot is every row of the table as it was when the
\* batch started, retired rows included, and the row a record is matched
\* against is the first (lowest Sequence) row of its key in that table,
\* whatever its flag.
C11_SnapshotAllRows ==
    pc = "main" =>
        /\ Len(final_data) = Len(pre_table)
        /\ \A k \in 1..Len(pre_table) : final_data[k] = pre_table[k]
        /\ (idx <= Len(lst) /\ KeyPos(pre_table, lst[idx]) # {})
               => /\ MatchIndex(final_data, lst[idx]) # 0
                  /\ \A k \in KeyPos(pre_table, lst[idx]) :
                         MatchedRow.Sequence <= pre_table[k].Sequence

\* C11 witness: a record is about to be matched against a row that was
\* already retired when the batch started.
C11_Witness ==
    /\ pc = "main"
    /\ idx <= Len(lst)
    /\ MatchIndex(final_data, lst[idx]) # 0
    /\ MatchedRow.ACTIVE_IND = "N"
    /\ pre_table[MatchIndex(final_data, lst[idx])].ACTIVE_IND = "N"

\* C12: inside a Main_logic batch the snapshot is the table read before the
\* first record and is never refreshed; a record whose key is not in it is
\* handled as unmatched even when an earlier record of the batch inserted a
\* row with that key: one row is added and no existing row changes.
C12_MatchedAgainstSnapshotOnly ==
    [][(pc = "main" /\ pc' = "main") =>
          /\ final_data' = final_data
          /\ Len(final_data) = Len(pre_table)
          /\ (idx' = idx + 1 /\ KeyPos(pre_table, lst[idx]) = {})
                 => /\ Len(table') = Len(table) + 1
                    /\ \A k \in 1..Len(table) : table'[k] = table[k]]_vars

\* C12 witness: two records with one key that is not in the snapshot have
\* been processed, each as unmatched, and both rows are active.
C12_Witness ==
    /\ pc = "main"
    /\ idx = 3
    /\ SameKey(lst[1], lst[2])
    /\ lst[1] # lst[2]
    /\ KeyPos(pre_table, lst[1]) = {}
    /\ Len(pre_table) > 0
    /\ table[RowOf(1)].ACTIVE_IND = "Y"
    /\ table[RowOf(2)].ACTIVE_IND = "Y"

\* The step-by-step loop and Main_logic taken as a whole agree.
MainLogicAgrees ==
    /\ MainDone => /\ Main_logic(pre_table, lst, final_data).ok
                   /\ Main_logic(pre_table, lst, final_data).table = table
    /\ (pc = "failed" /\ err = "OperationalError")
           => ~Main_logic(pre_table, lst, final_data).ok

\* The records the input lines decode to.
Records == {DecodeLine(line) : line \in Lines}

\* Batches with the keys of batch, position by position, whatever the
\* other fields.
SameKeysAs(batch) ==
    {b \in [1..Len(batch) -> Records] :
        \A p \in 1..Len(batch) : SameKey(b[p], batch[p])}

\* The 13 fields of a record are the stored fields of a row.
SameFields(row, dctnry) == row = NewRow(row.Sequence, dctnry)

\* Batches that differ only outside the key fields retire the same rows and
\* insert the same number of rows.
NonKeyFieldsIgnored ==
    MainDone =>
        \A b \in SameKeysAs(lst) :
            LET other == Main_logic(pre_table, b, final_data)
            IN  /\ other.ok
                /\ Len(other.table) = Len(table)
                /\ \A k \in 1..Len(table) :
                       other.table[k].ACTIVE_IND = table[k].ACTIVE_IND

\* A record identical in every field to an active row retires that row and
\* gets a new row, active when the record closes the batch.
IdenticalRecordSupersedes ==
    MainDone =>
        \A k \in 1..Len(pre_table), p \in 1..Len(lst) :
            (pre_table[k].ACTIVE_IND = "Y" /\ SameFields(pre_table[k], lst[p]))
            => /\ table[k].ACTIVE_IND = "N"
               /\ SameKey(table[RowOf(p)], lst[p])
               /\ (p = Len(lst) => table[RowOf(p)].ACTIVE_IND = "Y")

\* C13: a match depends on the three key fields only: batches that differ
\* in other fields retire the same rows and insert as many, and a record
\* identical to the active row still retires it and inserts a new row.
C13_MatchByKeyOnly == NonKeyFieldsIgnored /\ IdenticalRecordSupersedes

\* A Main_logic call has ended, by returning or by a rejected UPDATE.
MainEnded ==
    /\ pc \in {"idle", "failed"}
    /\ calls > 0
    /\ file_name # "Day1.txt"
    /\ err # "ValueError"

\* Every record of the batch already had a row with its 13 fields when the
\* batch started.
AlreadyApplied ==
    /\ lst # <<>>
    /\ \A p \in 1..Len(lst) :
           \E k \in 1..Len(pre_table) : SameFields(pre_table[k], lst[p])

\* C14: re-applying a batch to a ledger that holds its effects is never a
\* no-op: for every record a row is retired and a new row is inserted, and
\* the row count grows by the batch length.
C14_ReapplyRetiresAndInserts ==
    (MainEnded /\ AlreadyApplied) =>
        /\ pc = "idle"
        /\ Len(table) = Len(pre_table) + Len(lst)
        /\ \A p \in 1..Len(lst) :
               /\ SameKey(table[RowOf(p)], lst[p])
               /\ \E k \in KeyPos(pre_table, lst[p]) :
                      pre_table[k].ACTIVE_IND = "Y" /\ table[k].ACTIVE_IND = "N"

(* ---------------------------------------------------------------------- *)
(* processOnlineshopping called with any file name in any order            *)
(* ---------------------------------------------------------------------- *)
FileNames == {"Day1.txt", "Day2.txt"}

NamedFiles ==
    {<<Blank>>, <<LineA, Blank>>, <<LineA2, Blank>>, <<LineT, Blank>>,
     <<LineA, LineA2, Blank>>, <<LineA>>}

NextAnyName ==
    \/ \E name \in FileNames, file \in NamedFiles : CallAs(name, file)
    \/ \E name \in FileNames, file \in NamedFiles : CallLoadErrorAs(name, file)
    \/ BaselineInsert
    \/ BaselineCommit
    \/ MainMatch
    \/ MainUpdateError
    \/ MainNoMatch
    \/ MainCommit

SpecAnyName == Init /\ [][NextAnyName]_vars

\* C15: the insert-without-lookup path is taken exactly by the first batch,
\* applied to the empty ledger; every batch applied to a ledger that holds
\* rows goes through the snapshot matching of Main_logic.
C15_BaselineIffFirstBatch ==
    pc \in {"baseline", "main"} =>
        /\ pc = "baseline" <=> (calls = 1 /\ pre_table = <<>>)
        /\ Len(pre_table) > 0 => pc = "main"

\* C16: the writes of a batch become durable together: while a call is
\* under way, or after it failed, the durable table is still the table as
\* it was when the batch started.
C16_BatchWritesAtomic ==
    (pc # "idle" /\ calls > 0) =>
        /\ Len(durable) = Len(pre_table)
        /\ \A k \in 1..Len(pre_table) : durable[k] = pre_table[k]

\* C17: when a call has returned, every retirement and insertion it made is
\* committed: the durable table is the table the connection sees.
C17_ReturnedBatchCommitted ==
    BatchDone =>
        /\ Len(durable) = Len(table)
        /\ \A k \in 1..Len(table) : durable[k] = table[k]

\* C17 witness: a Main_logic batch of two records that retired the first
\* row of the table has returned.
C17_Witness ==
    /\ MainDone
    /\ calls = 2
    /\ Len(lst) = 2
    /\ Len(pre_table) >= 1
    /\ Len(table) = Len(pre_table) + 2
    /\ pre_table[1].ACTIVE_IND = "Y"
    /\ table[1].ACTIVE_IND = "N"
    /\ durable[1].ACTIVE_IND = "N"

(* ---------------------------------------------------------------------- *)
(* The batch loader alone: Execute then Usable on one extract              *)
(* ---------------------------------------------------------------------- *)
MaxFileLines == 3

LineLong == LineA \o <<"9", "9">>
LineTiny == <<"1", "2", "3">>

LoaderLines == {LineA, LineS, LineLong, LineTiny, Blank}

\* What split('\n') can give: one or more pieces of text.
LoaderFiles == UNION {[1..n -> LoaderLines] : n \in 1..MaxFileLines}

InitLoader ==
    /\ table = <<>>
    /\ durable = <<>>
    /\ pc = "read"
    /\ err = "none"
    /\ calls = 0
    /\ file_name = "none"
    /\ extract \in LoaderFiles
    /\ lst = <<>>
    /\ idx = 1
    /\ final_data = <<>>
    /\ pre_table = <<>>

\* data = Execute(file_name); lst = Usable(data)
LoadOk ==
    /\ pc = "read"
    /\ Execute(extract).ok
    /\ lst' = Usable(Execute(extract).data)
    /\ pc' = "loaded"
    /\ UNCHANGED <<table, durable, err, calls, file_name, extract, idx,
                   final_data, pre_table>>

\* data.remove('') raises ValueError.
LoadError ==
    /\ pc = "read"
    /\ ~Execute(extract).ok
    /\ pc' = "failed"
    /\ err' = "ValueError"
    /\ UNCHANGED <<table, durable, calls, file_name, extract, lst, idx,
                   final_data, pre_table>>

NextLoader == LoadOk \/ LoadError

SpecLoader == InitLoader /\ [][NextLoader]_vars

\* The lines of an extract that are not blank, in order.
NonBlank(file) == SelectSeq(file, LAMBDA line : line # Blank)

\* C18: the loader drops every blank line and returns one decoded record
\* per non-blank line, in order; no record comes from a blank line.
C18_EveryBlankLineDropped ==
    pc = "loaded" =>
        /\ Len(lst) = Len(NonBlank(extract))
        /\ \A p \in 1..Len(lst) :
               /\ lst[p] = DecodeLine(NonBlank(extract)[p])
               /\ lst[p] # DecodeLine(Blank)

\* C19: the loader succeeds on every extract, with or without a blank line.
C19_LoaderNeverFails == pc # "failed"

\* Number of characters of a line of length n that fall in [a, b).
ClipLen(n, a, b) ==
    IF Min(n, b) > a THEN Min(n, b) - a ELSE 0

\* The fields of a record in layout order, joined.
Joined(r) ==
    r.Transaction_Id \o r.Customer_Id \o r.Customer_Name
        \o r.Customer_Addr_Id \o r.Product_Id \o r.Product_Nm
        \o r.ProductPrice \o r.ProductQuantity \o r.Status
        \o r.Transaction_time_stamp \o r.Ordered_Date \o r.Shipment_Date
        \o r.Delivered_Date

\* The field lengths of a record decoded from a line of length n.
LayoutLengths(r, n) ==
    /\ Len(r.Transaction_Id) = ClipLen(n, 0, 6)
    /\ Len(r.Customer_Id) = ClipLen(n, 6, 12)
    /\ Len(r.Customer_Name) = ClipLen(n, 12, 32)
    /\ Len(r.Customer_Addr_Id) = ClipLen(n, 32, 37)
    /\ Len(r.Product_Id) = ClipLen(n, 37, 44)
    /\ Len(r.Product_Nm) = ClipLen(n, 44, 74)
    /\ Len(r.ProductPrice) = ClipLen(n, 74, 80)
    /\ Len(r.ProductQuantity) = ClipLen(n, 80, 84)
    /\ Len(r.Status) = ClipLen(n, 84, 96)
    /\ Len(r.Transaction_time_stamp) = ClipLen(n, 96, 116)
    /\ Len(r.Ordered_Date) = ClipLen(n, 116, 127)
    /\ Len(r.Shipment_Date) = ClipLen(n, 127, 138)
    /\ Len(r.Delivered_Date) = ClipLen(n, 138, 149)

\* C20: every line, of any length, decodes to the 13 named fields cut at
\* the layout offsets: joined in order they are the first min(len, 149)
\* characters of the line, unchanged, short or empty at the end of a short
\* line.
C20_DecodeIsLayoutSlices ==
    pc = "loaded" =>
        \A p \in 1..Len(lst) :
            LET line == Execute(extract).data[p]
            IN  /\ DOMAIN lst[p] =
                      {"Transaction_Id", "Customer_Id", "Customer_Name",
                       "Customer_Addr_Id", "Product_Id", "Product_Nm",
                       "ProductPrice", "ProductQuantity", "Status",
                       "Transaction_time_stamp", "Ordered_Date",
                       "Shipment_Date", "Delivered_Date"}
                /\ LayoutLengths(lst[p], Len(line))
                /\ Joined(lst[p]) = [k \in 1..Min(Len(line), 149) |-> line[k]]

\* C20 witness: an extract with a 40-character line and a 151-character
\* line has been decoded.
C20_Witness ==
    /\ pc = "loaded"
    /\ extract = <<LineS, LineLong, Blank>>
    /\ Len(lst) = 2
    /\ lst[1].Product_Id = PidS
    /\ lst[1].Product_Nm = <<>>
    /\ Len(lst[2].Delivered_Date) = 11

(* ---------------------------------------------------------------------- *)
(* Errors                                                                  *)
(* ---------------------------------------------------------------------- *)
\* A call ended in Execute, before any record was decoded.
LoadFailed == pc = "failed" /\ err = "ValueError"

\* C21: when loading a batch fails, no record of it reaches the ledger: the
\* table and the durable table are exactly the table as it was before the
\* call, rows and flags.
C21_FailedLoadLeavesLedger ==
    LoadFailed =>
        /\ Len(table) = Len(pre_table)
        /\ \A k \in 1..Len(pre_table) : table[k] = pre_table[k]
        /\ durable = table

\* C21 witness: a load failed on a ledger that holds rows of two earlier
\* calls, one of them retired.
C21_Witness ==
    /\ LoadFailed
    /\ calls = 3
    /\ extract = <<LineA>>
    /\ Len(table) >= 2
    /\ table[1].ACTIVE_IND = "N"

\* The UPDATE of the current turn runs and selects no row that is still
\* active: no row at all, or only rows already retired.
RetiresNothing ==
    /\ pc = "main"
    /\ idx <= Len(lst)
    /\ MatchIndex(final_data, lst[idx]) # 0
    /\ UpdateOk(MatchedRow)
    /\ \A k \in 1..Len(table) :
           Selected(table[k], MatchedRow) => table[k].ACTIVE_IND = "N"

\* C22: a retirement that targets no existing row, or only rows already
\* retired, ends the call with an error; it is never passed over in silence.
C22_EmptyRetirementIsError ==
    [][RetiresNothing => pc' = "failed"]_vars

\* The message of the sqlite3.OperationalError raised for the UPDATE built
\* from row j, for key fields made of digits, letters and blanks with no
\* blank inside: an empty value leaves "=  and" or an unfinished statement,
\* a value that is no number is taken for a column name.
OperationalMessage(j) ==
    LET t == RStrip(LStrip(j.Transaction_Id))
        c == RStrip(LStrip(j.Customer_Id))
        p == RStrip(LStrip(j.Product_Id))
    IN  IF t = <<>> \/ c = <<>>
        THEN [kind |-> "syntax error", token |-> <<"a", "n", "d">>]
        ELSE IF p = <<>>
        THEN [kind |-> "incomplete input", token |-> <<>>]
        ELSE [kind |-> "no such column",
              token |-> IF ~AllDigits(t) THEN t
                        ELSE IF ~AllDigits(c) THEN c ELSE p]

\* What the caller gets when the UPDATE of loop turn q, built from row j,
\* is rejected: the exception of c.execute, which holds the message only.
Raised(q, j) == OperationalMessage(j)

\* A record with the Transaction_Id of LineT and the Product_Id of LineP.
LineTP == MkLine(TidT, NameA, PidP, Qty1)

\* A call ended at a rejected UPDATE.
UpdateFailed == pc = "failed" /\ err = "OperationalError"

\* C23: when a batch fails at a record, the error the caller gets tells
\* which record it was: no record with another business key, or no other
\* position in the batch, would have given the same error.
C23_ErrorIdentifiesRecord ==
    UpdateFailed =>
        \/ \A r \in Records \cup {DecodeLine(LineTP)} :
               (~UpdateOk(r) /\ Raised(idx, r) = Raised(idx, MatchedRow))
                   => SameKey(r, lst[idx])
        \/ \A q \in 1..MaxBatch :
               Raised(q, MatchedRow) = Raised(idx, MatchedRow) => q = idx

(* ---------------------------------------------------------------------- *)
(* Effects of a batch on the ledger                                        *)
(* ---------------------------------------------------------------------- *)
\* Position in the batch of the last record with the key of x.
LastPos(x) ==
    CHOOSE p \in KeyPos(lst, x) : \A q \in KeyPos(lst, x) : q <= p

\* C24: after a non-baseline batch, a key that had a row before the batch
\* and occurs in the batch has exactly one active row, the one inserted for
\* its last occurrence; its earlier rows, old and new, are retired.
C24_OnlyLastOccurrenceActive ==
    MainDone =>
        \A p \in 1..Len(lst) :
            KeyPos(pre_table, lst[p]) # {}
            => ActivePos(table, lst[p]) = {RowOf(LastPos(lst[p]))}

\* C25: in every committed table, every key that has a row has at least
\* one active row.
C25_CommittedKeyHasActiveRow ==
    \A k \in 1..Len(durable) : ActivePos(durable, durable[k]) # {}

\* The 13 fields of the row are, character for character, the record's.
FieldsUnchanged(row, dctnry) ==
    /\ row.Transaction_Id = dctnry.Transaction_Id
    /\ row.Customer_Id = dctnry.Customer_Id
    /\ row.Customer_Name = dctnry.Customer_Name
    /\ row.Customer_Addr_Id = dctnry.Customer_Addr_Id
    /\ row.Product_Id = dctnry.Product_Id
    /\ row.Product_Nm = dctnry.Product_Nm
    /\ row.ProductPrice = dctnry.ProductPrice
    /\ row.ProductQuantity = dctnry.ProductQuantity
    /\ row.Status = dctnry.Status
    /\ row.Transaction_time_stamp = dctnry.Transaction_time_stamp
    /\ row.Ordered_Date = dctnry.Ordered_Date
    /\ row.Shipment_Date = dctnry.Shipment_Date
    /\ row.Delivered_Date = dctnry.Delivered_Date

\* C26: a batch run, baseline or not, appends one row per record, in record
\* order, with the record's 13 field values unchanged and written active;
\* after it the row count is the count before plus the batch length.
C26_OneRowPerRecordUnchanged ==
    /\ BatchDone =>
           /\ Len(table) = Len(pre_table) + Len(lst)
           /\ \A p \in 1..Len(lst) : FieldsUnchanged(table[RowOf(p)], lst[p])
    /\ (pc \in {"baseline", "main"} /\ idx > 1) =>
           /\ Len(table) = Len(pre_table) + idx - 1
           /\ table[Len(table)].ACTIVE_IND = "Y"

\* C27: a batch leaves every row that was there before it and whose key
\* does not occur in the batch as it was: fields, Sequence and flag.
C27_OtherKeysUntouched ==
    BatchDone =>
        \A k \in 1..Len(pre_table) :
            KeyPos(lst, pre_table[k]) = {} => table[k] = pre_table[k]

(* ---------------------------------------------------------------------- *)
(* The two paths of processOnlineshopping on the empty ledger              *)
(* ---------------------------------------------------------------------- *)
\* The Day1 branch as a whole: Insert for every record of lst, in order.
RECURSIVE Baseline(_, _)
Baseline(tbl, batch) ==
    IF batch = <<>> THEN tbl
    ELSE Baseline(Insert(tbl, Head(batch)), Tail(batch))

\* C28: on the empty ledger the insert-without-lookup path and the path
\* through Final_data and Main_logic give the same ledger for every batch,
\* batches with duplicate keys included: whichever path the call took, the
\* table is what either path computes.
C28_BaselineEqualsGeneralOnEmpty ==
    (BatchDone /\ pre_table = <<>>) =>
        /\ table = Baseline(<<>>, lst)
        /\ Main_logic(<<>>, lst, Final_data(<<>>)) =
               [ok |-> TRUE, table |-> table]
        /\ durable = table

\* C28 witness: a batch with one key twice went through Main_logic on the
\* empty ledger and left both rows active, as the baseline path does.
C28_Witness ==
    /\ BatchDone
    /\ pre_table = <<>>
    /\ file_name = "Day2.txt"
    /\ Len(lst) = 2
    /\ SameKey(lst[1], lst[2])
    /\ Len(table) = 2
    /\ table[1].ACTIVE_IND = "Y"
    /\ table[2].ACTIVE_IND = "Y"

\* C30: whatever text the three key fields hold, the retirement of a
\* matched record goes through and retires exactly the rows whose stored
\* Transaction_Id, Customer_Id and Product_Id equal, as text, those of the
\* matched row.
C30_RetiresTextuallyEqualKey ==
    [][(/\ pc = "main"
        /\ idx <= Len(lst)
        /\ MatchIndex(final_data, lst[idx]) # 0)
       => /\ pc' = "main"
          /\ idx' = idx + 1
          /\ \A k \in 1..Len(table) :
                 table'[k].ACTIVE_IND =
                    IF SameKey(table[k], MatchedRow) THEN "N"
                    ELSE table[k].ACTIVE_IND]_vars

(* ---------------------------------------------------------------------- *)
(* The per-day script: the same steps written out once per day             *)
(* ---------------------------------------------------------------------- *)
\* Number of days the script reads.
ScriptDays == 3

\* Read, split, remove('') and decode of one day; on days 2 and 3 followed
\* by the SELECT * that fills final_data.
ScriptRead(day, file) ==
    /\ pc = "idle"
    /\ calls = day - 1
    /\ calls < MaxCalls
    /\ Len(table) + Len(file) - 1 <= MaxRows
    /\ Execute(file).ok
    /\ calls' = day
    /\ file_name' = DayName(day)
    /\ extract' = file
    /\ lst' = Usable(Execute(file).data)
    /\ idx' = 1
    /\ pre_table' = table
    /\ IF day = 1
       THEN pc' = "baseline" /\ final_data' = final_data
       ELSE pc' = "main" /\ final_data' = Final_data(table)
    /\ UNCHANGED <<table, durable, err>>

\* The remove('') of one day raises ValueError and the script stops.
ScriptReadError(day, file) ==
    /\ pc = "idle"
    /\ calls = day - 1
    /\ calls < MaxCalls
    /\ ~Execute(file).ok
    /\ calls' = day
    /\ file_name' = DayName(day)
    /\ extract' = file
    /\ pre_table' = table
    /\ pc' = "failed"
    /\ err' = "ValueError"
    /\ UNCHANGED <<table, durable, lst, idx, final_data>>

\* Day 1: one turn of the insert loop.
Day1Insert ==
    /\ pc = "baseline"
    /\ calls = 1
    /\ idx <= Len(lst)
    /\ table' = Append(table, NewRow(NextSequence(table), lst[idx]))
    /\ idx' = idx + 1
    /\ UNCHANGED <<durable, pc, err, calls, file_name, extract, lst, final_data,
                   pre_table>>

\* Day 1: conn.commit() after the loop.
Day1Commit ==
    /\ pc = "baseline"
    /\ calls = 1
    /\ idx > Len(lst)
    /\ durable' = table
    /\ pc' = "idle"
    /\ UNCHANGED <<table, err, calls, file_name, extract, lst, idx, final_data,
                   pre_table>>

\* Variant: the turn for a matched record without the commit that follows
\* the UPDATE.
ScriptMatchLateCommit(day) ==
    /\ pc = "main"
    /\ calls = day
    /\ idx <= Len(lst)
    /\ MatchIndex(final_data, lst[idx]) # 0
    /\ LET j == final_data[MatchIndex(final_data, lst[idx])]
       IN  /\ UpdateOk(j)
           /\ table' = Append(Retire(table, j),
                              NewRow(NextSequence(table), lst[idx]))
    /\ idx' = idx + 1
    /\ UNCHANGED <<durable, pc, err, calls, file_name, extract, lst,
                   final_data, pre_table>>

\* Main logic of a day, a record with a matching row j: UPDATE,
\* conn.commit(), the INSERT written out in place, break.
ScriptMatch(day) ==
    /\ pc = "main"
    /\ calls = day
    /\ idx <= Len(lst)
    /\ MatchIndex(final_data, lst[idx]) # 0
    /\ LET j == final_data[MatchIndex(final_data, lst[idx])]
       IN  /\ UpdateOk(j)
           /\ durable' = Retire(table, j)
           /\ table' = Append(Retire(table, j),
                              NewRow(NextSequence(table), lst[idx]))
    /\ idx' = idx + 1
    /\ UNCHANGED <<pc, err, calls, file_name, extract, lst, final_data,
                   pre_table>>

\* The same turn when the UPDATE is rejected.
ScriptUpdateError(day) ==
    /\ pc = "main"
    /\ calls = day
    /\ idx <= Len(lst)
    /\ MatchIndex(final_data, lst[idx]) # 0
    /\ ~UpdateOk(final_data[MatchIndex(final_data, lst[idx])])
    /\ pc' = "failed"
    /\ err' = "OperationalError"
    /\ UNCHANGED <<table, durable, calls, file_name, extract, lst, idx,
                   final_data, pre_table>>

\* Main logic of a day, a record with no matching row: the INSERT under
\* if flag == 0.
ScriptNoMatch(day) ==
    /\ pc = "main"
    /\ calls = day
    /\ idx <= Len(lst)
    /\ MatchIndex(final_data, lst[idx]) = 0
    /\ table' = Append(table, NewRow(NextSequence(table), lst[idx]))
    /\ idx' = idx + 1
    /\ UNCHANGED <<durable, pc, err, calls, file_name, extract, lst, final_data,
                   pre_table>>

\* conn.commit() after the main logic loop of a day.
ScriptCommit(day) ==
    /\ pc = "main"
    /\ calls = day
    /\ idx > Len(lst)
    /\ durable' = table
    /\ pc' = "idle"
    /\ UNCHANGED <<table, err, calls, file_name, extract, lst, idx, final_data,
                   pre_table>>

Day1Read(file) == ScriptRead(1, file)
Day1ReadError(file) == ScriptReadError(1, file)
Day2Read(file) == ScriptRead(2, file)
Day2ReadError(file) == ScriptReadError(2, file)
Day2Match == ScriptMatch(2)
Day2UpdateError == ScriptUpdateError(2)
Day2NoMatch == ScriptNoMatch(2)
Day2Commit == ScriptCommit(2)
Day3Read(file) == ScriptRead(3, file)
Day3ReadError(file) == ScriptReadError(3, file)
Day3Match == ScriptMatch(3)
Day3UpdateError == ScriptUpdateError(3)
Day3NoMatch == ScriptNoMatch(3)
Day3Commit == ScriptCommit(3)

NextScript ==
    \/ \E file \in Files : Day1Read(file)
    \/ \E file \in Files : Day1ReadError(file)
    \/ Day1Insert
    \/ Day1Commit
    \/ \E file \in Files : Day2Read(file)
    \/ \E file \in Files : Day2ReadError(file)
    \/ Day2Match
    \/ Day2UpdateError
    \/ Day2NoMatch
    \/ Day2Commit
    \/ \E file \in Files : Day3Read(file)
    \/ \E file \in Files : Day3ReadError(file)
    \/ Day3Match
    \/ Day3UpdateError
    \/ Day3NoMatch
    \/ Day3Commit

SpecScript == Init /\ [][NextScript]_vars

\* main makes three calls of processOnlineshopping.
MainCalls == 3

\* A step of main within its three calls.
MainStep == Next /\ calls' <= MainCalls

\* The two programs side by side on the same state: each step is one that
\* main takes or one that the script takes.
NextEither == MainStep \/ NextScript

SpecEither == Init /\ [][NextEither]_vars

\* C29: the per-day script and main of the refactored functions behave
\* alike on every three extracts: from every state either of them reaches,
\* a step one of them takes is a step the other takes on the same extract,
\* to the same table (rows, Sequence values, flags), the same committed
\* table and the same failure.
C29_ScriptEquivalentToMain ==
    [][MainStep /\ NextScript]_vars

\* C29 witness: the script has run its three days, day 3 retired a row that
\* day 2 inserted, and everything is committed.
C29_Witness ==
    /\ pc = "idle"
    /\ calls = 3
    /\ file_name = "Day3.txt"
    /\ Len(pre_table) >= 2
    /\ pre_table[2].ACTIVE_IND = "Y"
    /\ table[2].ACTIVE_IND = "N"
    /\ Len(table) > Len(pre_table)
    /\ durable = table

====
